---- MODULE Spec2Model ----
(***************************************************************************)
(* Model of src/procurement_app.py: the Streamlit session state of the     *)
(* procurement tool (canonical quote table, project metadata, the buffer   *)
(* of data-editor snapshots, the two-step delete confirmation), the Google *)
(* Sheets record store it overwrites wholesale, and the GCS attachment     *)
(* bucket.  One action per user-triggered handler; a script run that only  *)
(* redraws the page is the action Render.                                  *)
(*                                                                         *)
(* A quote row is a record; the columns of the sheet map to fields as      *)
(*   ID=ID  選取=sel  專案名稱=proj  專案項目=item  供應商=supplier         *)
(*   單價=price  數量=qty  總價=total  預計交貨日=deliv  狀態=status        *)
(*   採購最慢到貨日=latest  最後修改時間=lastmod  附件=att  標記刪除=del    *)
(*   交期判定=judge (UI-only column added by run_app).                     *)
(* Dates are day numbers, NaT is the missing date.  Timestamps are the     *)
(* value of the session clock.  An attachment reference is the empty       *)
(* string (the empty tuple) or the tuple <<folder, id, file name>>.        *)
(***************************************************************************)
EXTENDS Integers, Sequences, FiniteSets, TLC

VARIABLES
    data,                 \* st.session_state.data: sequence of quote rows
    project_metadata,     \* st.session_state.project_metadata: name -> meta
    edited_dataframes,    \* st.session_state.edited_dataframes (ordered dict)
    show_delete_confirm,  \* st.session_state.show_delete_confirm
    pending_delete_ids,   \* st.session_state.pending_delete_ids (may be absent)
    delete_count,         \* st.session_state.delete_count
    next_id,              \* st.session_state.next_id
    data_load_failed,     \* st.session_state.data_load_failed
    sheet_data,           \* rows of worksheet DATA_SHEET_NAME
    sheet_meta,           \* rows of worksheet METADATA_SHEET_NAME
    gcs,                  \* blobs present in the GCS bucket
    pc,                   \* "render": a script run must redraw; "ready": page drawn
    clock,                \* datetime.now(), one tick per user event
    op,                   \* handler run by the last step
    report,               \* message the last handler showed
    wres,                 \* outcome of the last handler's Record Store write
    delete_attempts,      \* blob names the last handler passed to delete_file_from_gcs
    report_count,         \* number of quotes the last handler's message names, else 0
    active,               \* the browser session whose state the variables above hold
    parked,               \* the state of the other browser session, if there is one
    arg,                  \* input of a function that is checked on its own
    result,               \* its value, once applied
    data_at_trigger       \* history: the canonical table when the pending delete was captured

vars == <<data, project_metadata, edited_dataframes, show_delete_confirm,
          pending_delete_ids, delete_count, next_id, data_load_failed,
          sheet_data, sheet_meta, gcs, pc, clock, op, report, wres,
          delete_attempts, report_count, active, parked, arg, result,
          data_at_trigger>>

program_vars == <<data, project_metadata, edited_dataframes, show_delete_confirm,
                  pending_delete_ids, delete_count, next_id, data_load_failed,
                  sheet_data, sheet_meta, gcs, pc, clock, op, report, wres,
                  delete_attempts, report_count, active, parked, data_at_trigger>>

(* what the handlers of one session never touch *)
aux_vars == <<active, parked, arg, result>>

----------------------------------------------------------------------------
(* Bounds of the model *)

MaxOps == 3

MaxGroupRows == 3

MaxDay == 3

MaxPad == 1

(* Small value domains *)

NaT == 0

ProjectNames == <<"A", "B", "C">>

ItemNames == <<"X", "Y">>

Suppliers == {"s1", "s2"}

STATUS_OPTIONS == <<"inquiry", "quoted">>

Prices == {1, 2}

Qtys == {1, 2}

Dates == {2, 4}

NoFile == <<>>

GCS_FOLDER_PATH == "attachments"

BlobName(quote_id, fname) == <<GCS_FOLDER_PATH, quote_id, fname>>

----------------------------------------------------------------------------
(* Sequence helpers *)

Range(s) == {s[i] : i \in 1..Len(s)}

Ids(df) == {df[i].ID : i \in 1..Len(df)}

(* variant: the smallest element *)
MaxOf_Min(S) == CHOOSE m \in S : \A x \in S : m <= x

MaxOf(S) == CHOOSE m \in S : \A x \in S : x <= m

(* main_df[main_df['ID'] == original_id].index[0], 0 when the index is empty *)
IndexOfID(df, id) ==
    IF \E i \in 1..Len(df) : df[i].ID = id
    THEN CHOOSE i \in 1..Len(df) :
            df[i].ID = id /\ \A j \in 1..(i - 1) : df[j].ID # id
    ELSE 0

(* str(x) as the comparisons of handle_master_save and
   get_current_delete_ids use it: a bool cell prints as "True"/"False";
   any other cell prints as its own text, kept as a one-element tuple *)
BoolStr(b) == IF b THEN "True" ELSE "False"

bool_cols == {"sel", "del"}

PyStr(col, x) == IF col \in bool_cols THEN BoolStr(x) ELSE <<x>>

Lower(s) ==
    IF s = "True" THEN "true"
    ELSE IF s = "False" THEN "false"
    ELSE s

(* position of a name in a sorted list of names, 0 when absent *)
Rank(names, n) ==
    IF \E i \in 1..Len(names) : names[i] = n
    THEN CHOOSE i \in 1..Len(names) : names[i] = n
    ELSE 0

----------------------------------------------------------------------------
(* Derived columns, recomputed at the top of every script run *)

(* latest-allowable-arrival = due date - buffer days; unset when the
   project has no metadata *)
calculate_latest_arrival_dates(df, metadata) ==
    [i \in 1..Len(df) |->
        IF df[i].proj \in DOMAIN metadata
        THEN [df[i] EXCEPT !.latest =
                 metadata[df[i].proj].due_date - metadata[df[i].proj].buffer_days]
        ELSE [df[i] EXCEPT !.latest = NaT]]

(* a cell whose content pd.to_datetime rejects *)
Unparsable == -1

(* variant: a delivery on the latest allowable day counts as late *)
get_date_judgment_icon_Geq(row) ==
    IF row.deliv = Unparsable \/ row.latest = Unparsable THEN ""
    ELSE IF row.deliv = NaT \/ row.latest = NaT THEN ""
    ELSE IF row.deliv >= row.latest THEN "late"
    ELSE "ontime"

(* "late" is the cross, "ontime" the tick; the first line is the except
   branch of the try around pd.to_datetime *)
get_date_judgment_icon(row) ==
    IF row.deliv = Unparsable \/ row.latest = Unparsable THEN ""
    ELSE IF row.deliv = NaT \/ row.latest = NaT THEN ""
    ELSE IF row.deliv > row.latest THEN "late"
    ELSE "ontime"

(* run_app up to the first render_* call *)
RunStart(df, metadata) ==
    LET d1 == calculate_latest_arrival_dates(df, metadata)
    IN  [i \in 1..Len(d1) |-> [d1[i] EXCEPT !.judge = get_date_judgment_icon(d1[i])]]

----------------------------------------------------------------------------
(* Record Store: full overwrite of both worksheets *)

DateStr(d) == IF d = NaT THEN <<>> ELSE <<"%Y-%m-%d", d>>

StoreCols == {"ID", "sel", "proj", "item", "supplier", "price", "qty", "total",
              "deliv", "status", "latest", "lastmod", "att", "del"}

(* df_export: UI-only columns dropped, dates printed, the rest as is *)
ExportRow(row) ==
    [c \in StoreCols |->
        IF c \in {"deliv", "latest"} THEN DateStr(row[c]) ELSE row[c]]

ExportData(df) == [i \in 1..Len(df) |-> ExportRow(df[i])]

ExportMeta(metadata) ==
    [n \in DOMAIN metadata |->
        [due_date      |-> DateStr(metadata[n].due_date),
         buffer_days   |-> metadata[n].buffer_days,
         last_modified |-> metadata[n].last_modified]]

WriteOutcomes == {"ok", "error", "meta_error"}

(* variant: reports success without rewriting the quote rows *)
write_data_to_sheets_KeepRows(df_to_write, metadata_to_write, outcome) ==
    IF data_load_failed
    THEN [ok |-> FALSE, sd |-> sheet_data, sm |-> sheet_meta, wres |-> "disabled"]
    ELSE IF outcome = "error"
    THEN [ok |-> FALSE, sd |-> sheet_data, sm |-> sheet_meta, wres |-> "failed"]
    ELSE IF outcome = "meta_error"
    THEN [ok |-> FALSE, sd |-> sheet_data, sm |-> sheet_meta, wres |-> "partial"]
    ELSE [ok |-> TRUE, sd |-> sheet_data,
          sm |-> ExportMeta(metadata_to_write), wres |-> "ok"]

(* variant: all or nothing, a write that fails leaves both worksheets alone *)
write_data_to_sheets_Atomic(df_to_write, metadata_to_write, outcome) ==
    IF data_load_failed
    THEN [ok |-> FALSE, sd |-> sheet_data, sm |-> sheet_meta, wres |-> "disabled"]
    ELSE IF outcome = "error"
    THEN [ok |-> FALSE, sd |-> sheet_data, sm |-> sheet_meta, wres |-> "failed"]
    ELSE IF outcome = "meta_error"
    THEN [ok |-> FALSE, sd |-> sheet_data, sm |-> sheet_meta, wres |-> "partial"]
    ELSE [ok |-> TRUE, sd |-> ExportData(df_to_write),
          sm |-> ExportMeta(metadata_to_write), wres |-> "ok"]

(* variant: a write that raises has already cleared the quote worksheet *)
write_data_to_sheets_ClearOnError(df_to_write, metadata_to_write, outcome) ==
    IF data_load_failed
    THEN [ok |-> FALSE, sd |-> sheet_data, sm |-> sheet_meta, wres |-> "disabled"]
    ELSE IF outcome = "error"
    THEN [ok |-> FALSE, sd |-> <<>>, sm |-> sheet_meta, wres |-> "failed"]
    ELSE IF outcome = "meta_error"
    THEN [ok |-> FALSE, sd |-> ExportData(df_to_write), sm |-> sheet_meta,
          wres |-> "partial"]
    ELSE [ok |-> TRUE, sd |-> ExportData(df_to_write),
          sm |-> ExportMeta(metadata_to_write), wres |-> "ok"]

(* variant: rows of the store whose ID the writer does not have are kept *)
write_data_to_sheets_Merge(df_to_write, metadata_to_write, outcome) ==
    IF data_load_failed
    THEN [ok |-> FALSE, sd |-> sheet_data, sm |-> sheet_meta, wres |-> "disabled"]
    ELSE IF outcome = "error"
    THEN [ok |-> FALSE, sd |-> sheet_data, sm |-> sheet_meta, wres |-> "failed"]
    ELSE IF outcome = "meta_error"
    THEN [ok |-> FALSE, sd |-> ExportData(df_to_write), sm |-> sheet_meta,
          wres |-> "partial"]
    ELSE [ok |-> TRUE,
          sd |-> ExportData(df_to_write) \o
                 SelectSeq(sheet_data, LAMBDA r : r.ID \notin Ids(df_to_write)),
          sm |-> ExportMeta(metadata_to_write), wres |-> "ok"]

(* variant: the load-failed latch is not consulted *)
write_data_to_sheets_NoLatch(df_to_write, metadata_to_write, outcome) ==
    IF outcome = "error"
    THEN [ok |-> FALSE, sd |-> sheet_data, sm |-> sheet_meta, wres |-> "failed"]
    ELSE IF outcome = "meta_error"
    THEN [ok |-> FALSE, sd |-> ExportData(df_to_write), sm |-> sheet_meta,
          wres |-> "partial"]
    ELSE [ok |-> TRUE, sd |-> ExportData(df_to_write),
          sm |-> ExportMeta(metadata_to_write), wres |-> "ok"]

(* result of write_data_to_sheets: the value returned, both worksheets
   afterwards and what happened.  "error": an exception before the first
   clear; "meta_error": the quote rows were rewritten and the metadata
   worksheet then failed *)
write_data_to_sheets(df_to_write, metadata_to_write, outcome) ==
    IF data_load_failed
    THEN [ok |-> FALSE, sd |-> sheet_data, sm |-> sheet_meta, wres |-> "disabled"]
    ELSE IF outcome = "error"
    THEN [ok |-> FALSE, sd |-> sheet_data, sm |-> sheet_meta, wres |-> "failed"]
    ELSE IF outcome = "meta_error"
    THEN [ok |-> FALSE, sd |-> ExportData(df_to_write), sm |-> sheet_meta,
          wres |-> "partial"]
    ELSE [ok |-> TRUE, sd |-> ExportData(df_to_write),
          sm |-> ExportMeta(metadata_to_write), wres |-> "ok"]

----------------------------------------------------------------------------
(* Attachment Store *)

(* blobs left in the bucket after delete_file_from_gcs ran for every name in
   names; the deletes of the names in failing raised *)
GcsAfterDeletes(names, failing) == gcs \ (names \ failing)

(* variant: no attachment is looked up *)
AttNames_None(df) == {}

AttNames(df) == {df[i].att : i \in 1..Len(df)} \ {NoFile}

----------------------------------------------------------------------------
(* Edit Buffer: render_project_tables *)

editable_cols == {"sel", "supplier", "price", "qty", "status", "del", "deliv"}

(* value of st.data_editor for one row: the edits typed into this editor
   (same project, same item, same ID) are kept, every other column is the
   canonical one *)
EditorRow(row, old) ==
    IF \E k \in 1..Len(old) : old[k].ID = row.ID /\ old[k].proj = row.proj
    THEN LET k == CHOOSE k \in 1..Len(old) :
                      old[k].ID = row.ID /\ old[k].proj = row.proj
         IN  [c \in DOMAIN row |-> IF c \in editable_cols THEN old[k][c] ELSE row[c]]
    ELSE row

BufIndex(buf, key) ==
    IF \E i \in 1..Len(buf) : buf[i].key = key
    THEN CHOOSE i \in 1..Len(buf) : buf[i].key = key
    ELSE 0

BufRows(buf, key) == IF BufIndex(buf, key) = 0 THEN <<>> ELSE buf[BufIndex(buf, key)].rows

(* st.session_state.edited_dataframes[item_name] = edited_df_value *)
BufPut(buf, key, rows) ==
    IF BufIndex(buf, key) = 0
    THEN Append(buf, [key |-> key, rows |-> rows])
    ELSE [buf EXCEPT ![BufIndex(buf, key)].rows = rows]

GroupRows(df, p, it) == SelectSeq(df, LAMBDA r : r.proj = p /\ r.item = it)

(* the loops over df.groupby('專案名稱') and proj_data.groupby('專案項目'):
   groups in sorted order, k counts (project, item) pairs *)
RECURSIVE RenderGroups(_, _, _, _)
RenderGroups(df, old, buf, k) ==
    IF k > Len(ProjectNames) * Len(ItemNames) THEN buf
    ELSE LET p    == ProjectNames[((k - 1) \div Len(ItemNames)) + 1]
             it   == ItemNames[((k - 1) % Len(ItemNames)) + 1]
             rows == GroupRows(df, p, it)
         IN  IF rows = <<>> THEN RenderGroups(df, old, buf, k + 1)
             ELSE RenderGroups(df, old,
                      BufPut(buf, it,
                          [j \in 1..Len(rows) |-> EditorRow(rows[j], BufRows(old, it))]),
                      k + 1)

render_project_tables(df, buf) ==
    IF df = <<>> THEN buf ELSE RenderGroups(df, buf, buf, 1)

----------------------------------------------------------------------------
(* Reconciliation: handle_master_save *)

updatable_cols == <<"sel", "supplier", "price", "qty", "status", "del">>

(* for col in updatable_cols: copy the cell when its text differs *)
RECURSIVE UpdateCols(_, _, _)
UpdateCols(row, new_row, k) ==
    IF k > Len(updatable_cols) THEN [row |-> row, changed |-> FALSE]
    ELSE LET col     == updatable_cols[k]
             differs == PyStr(col, row[col]) # PyStr(col, new_row[col])
             r1      == IF differs THEN [row EXCEPT ![col] = new_row[col]] ELSE row
             rest    == UpdateCols(r1, new_row, k + 1)
         IN  [row |-> rest.row, changed |-> differs \/ rest.changed]

(* variant: a present date always counts as edited *)
DateEdited_Always(old_date, new_delivery_date) == new_delivery_date # NaT

(* the new delivery date is applied only when it is not missing *)
DateEdited(old_date, new_delivery_date) ==
    new_delivery_date # NaT /\ old_date # new_delivery_date

(* variant: a snapshot row whose ID is unknown is appended as a new quote *)
RowNotFound_Append(st, new_row, current_time_str) ==
    [df |-> Append(st.df, [new_row EXCEPT !.lastmod = current_time_str]),
     changes_detected |-> TRUE]

(* `if idx_in_main.empty: continue` *)
RowNotFound(st, new_row, current_time_str) == st

(* variant: every row found in a snapshot is stamped *)
StampRow_Always(row, row_changed, current_time_str) ==
    [row EXCEPT !.lastmod = current_time_str]

(* `if row_changed:` the quote's last-modified time becomes the save's time *)
StampRow(row, row_changed, current_time_str) ==
    IF row_changed THEN [row EXCEPT !.lastmod = current_time_str] ELSE row

(* body of `for index, new_row in edited_df.iterrows()`;
   st = [df, changes_detected] *)
MergeRow(st, new_row, current_time_str) ==
    LET main_idx == IndexOfID(st.df, new_row.ID)
    IN  IF main_idx = 0 THEN RowNotFound(st, new_row, current_time_str)
        ELSE LET r0 == st.df[main_idx]
                 date_changed == DateEdited(r0.deliv, new_row.deliv)
                 r1 == IF date_changed THEN [r0 EXCEPT !.deliv = new_row.deliv] ELSE r0
                 u  == UpdateCols(r1, new_row, 1)
                 new_total     == u.row.price * u.row.qty
                 total_changed == u.row.total # new_total
                 r2 == IF total_changed THEN [u.row EXCEPT !.total = new_total] ELSE u.row
                 row_changed == date_changed \/ u.changed \/ total_changed
                 r3 == StampRow(r2, row_changed, current_time_str)
             IN  [df |-> [st.df EXCEPT ![main_idx] = r3],
                  changes_detected |-> st.changes_detected \/ row_changed]

RECURSIVE MergeRows(_, _, _, _)
MergeRows(st, edited_df, k, current_time_str) ==
    IF k > Len(edited_df) THEN st
    ELSE MergeRows(MergeRow(st, edited_df[k], current_time_str),
                   edited_df, k + 1, current_time_str)

(* for _, edited_df in st.session_state.edited_dataframes.items() *)
RECURSIVE MergeAll(_, _, _, _)
MergeAll(st, buf, k, current_time_str) ==
    IF k > Len(buf) THEN st
    ELSE MergeAll(MergeRows(st, buf[k].rows, 1, current_time_str),
                  buf, k + 1, current_time_str)

Merged(df, buf, current_time_str) ==
    MergeAll([df |-> df, changes_detected |-> FALSE], buf, 1, current_time_str)

(* variant: the buttons are never disabled *)
BatchButtonsAlways == TRUE

(* the save and delete-trigger buttons are drawn with disabled=is_locked *)
BatchButtonsEnabled == ~show_delete_confirm

handle_master_save(outcome) ==
    /\ pc = "ready"
    /\ UNCHANGED aux_vars
    /\ UNCHANGED data_at_trigger
    /\ BatchButtonsEnabled
    /\ clock < MaxOps
    /\ clock' = clock + 1
    /\ op' = "master_save"
    /\ delete_attempts' = {}
    /\ report_count' = 0
    /\ pc' = "render"
    /\ LET df0 == RunStart(data, project_metadata)
           m   == Merged(df0, edited_dataframes, clock + 1)
           w   == write_data_to_sheets(m.df, project_metadata, outcome)
       IN  IF edited_dataframes = <<>> \/ ~m.changes_detected
           THEN /\ data' = df0
                /\ report' = "nothing_to_save"
                /\ wres' = "none"
                /\ UNCHANGED <<edited_dataframes, sheet_data, sheet_meta>>
           ELSE /\ data' = m.df
                /\ sheet_data' = w.sd
                /\ sheet_meta' = w.sm
                /\ wres' = w.wres
                /\ edited_dataframes' = IF w.ok THEN <<>> ELSE edited_dataframes
                /\ report' = IF w.ok THEN "saved" ELSE "write_failed"
    /\ UNCHANGED <<project_metadata, show_delete_confirm, pending_delete_ids,
                   delete_count, next_id, data_load_failed, gcs>>

----------------------------------------------------------------------------
(* Deletion Coordinator *)

NoPending == [present |-> FALSE, ids |-> <<>>]

(* rows of all snapshots in the order get_current_delete_ids visits them *)
RECURSIVE AllSnapshotRows(_, _)
AllSnapshotRows(buf, k) ==
    IF k > Len(buf) THEN <<>>
    ELSE buf[k].rows \o AllSnapshotRows(buf, k + 1)

(* variant: the snapshots are ignored *)
DeleteMapGet_Default(buf, item_id, default) == default

(* delete_map.get(item_id, default): the flag of the last snapshot row
   with that ID *)
DeleteMapGet(buf, item_id, default) ==
    LET rows == AllSnapshotRows(buf, 1)
        hits == {k \in 1..Len(rows) : rows[k].ID = item_id}
    IN  IF hits = {} THEN default
        ELSE rows[CHOOSE k \in hits : \A j \in hits : j <= k].del

(* variant: every row counts as marked *)
IsMarked_All(is_marked) == TRUE

IsMarked(is_marked) == is_marked = TRUE \/ Lower(BoolStr(is_marked)) = "true"

get_current_delete_ids(df, buf) ==
    LET marked == SelectSeq(df, LAMBDA row : IsMarked(DeleteMapGet(buf, row.ID, row.del)))
    IN  [i \in 1..Len(marked) |-> marked[i].ID]

trigger_delete_confirmation ==
    /\ pc = "ready"
    /\ UNCHANGED aux_vars
    /\ BatchButtonsEnabled
    /\ clock < MaxOps
    /\ clock' = clock + 1
    /\ op' = "trigger"
    /\ delete_attempts' = {}
    /\ report_count' = 0
    /\ pc' = "render"
    /\ wres' = "none"
    /\ data' = RunStart(data, project_metadata)
    /\ LET ids_to_delete == get_current_delete_ids(data', edited_dataframes)
       IN  IF ids_to_delete = <<>>
           THEN /\ report' = "nothing_marked"
                /\ show_delete_confirm' = FALSE
                /\ pending_delete_ids' = NoPending
                /\ UNCHANGED delete_count
           ELSE /\ report' = "confirming"
                /\ pending_delete_ids' = [present |-> TRUE, ids |-> ids_to_delete]
                /\ delete_count' = Len(ids_to_delete)
                /\ show_delete_confirm' = TRUE
    /\ data_at_trigger' = (IF show_delete_confirm' THEN data' ELSE <<>>)
    /\ UNCHANGED <<project_metadata, edited_dataframes, next_id, data_load_failed,
                   sheet_data, sheet_meta, gcs>>

(* variant: nothing is removed *)
RowsNotIn_None(main_df, ids_to_delete) == main_df

(* variant: only the first listed ID is removed *)
RowsNotIn_FirstOnly(main_df, ids_to_delete) ==
    SelectSeq(main_df, LAMBDA r : ids_to_delete = <<>> \/ r.ID # ids_to_delete[1])

(* main_df[~main_df['ID'].isin(ids_to_delete)].reset_index(drop=True) *)
RowsNotIn(main_df, ids_to_delete) ==
    SelectSeq(main_df, LAMBDA r : r.ID \notin Range(ids_to_delete))

(* variant: an empty pending list is processed like any other *)
ConfirmExpired_Never(ids_to_delete) == FALSE

(* `if not ids_to_delete:` *)
ConfirmExpired(ids_to_delete) == ids_to_delete = <<>>

(* the confirm and cancel buttons are drawn only while show_delete_confirm *)
handle_batch_delete_quotes(failing, outcome) ==
    /\ pc = "ready"
    /\ UNCHANGED aux_vars
    /\ show_delete_confirm
    /\ clock < MaxOps
    /\ clock' = clock + 1
    /\ op' = "confirm_delete"
    /\ pc' = "render"
    /\ LET main_df == RunStart(data, project_metadata)
           ids_to_delete == IF pending_delete_ids.present
                            THEN pending_delete_ids.ids ELSE <<>>
           deleted_quotes_df ==
               SelectSeq(main_df, LAMBDA r : r.ID \in Range(ids_to_delete))
           df_after_delete == RowsNotIn(main_df, ids_to_delete)
           names == AttNames(deleted_quotes_df)
           w == write_data_to_sheets(df_after_delete, project_metadata, outcome)
       IN  IF ConfirmExpired(ids_to_delete)
           THEN /\ show_delete_confirm' = FALSE
                /\ report' = "delete_expired"
                /\ wres' = "none"
                /\ data' = main_df
                /\ failing = {}
                /\ delete_attempts' = {}
                /\ report_count' = 0
                /\ UNCHANGED <<edited_dataframes, pending_delete_ids, sheet_data,
                               sheet_meta, gcs>>
           ELSE /\ failing \subseteq names
                /\ delete_attempts' = names
                /\ gcs' = GcsAfterDeletes(names, failing)
                /\ data' = df_after_delete
                /\ sheet_data' = w.sd
                /\ sheet_meta' = w.sm
                /\ wres' = w.wres
                /\ show_delete_confirm' = IF w.ok THEN FALSE ELSE show_delete_confirm
                /\ edited_dataframes' = IF w.ok THEN <<>> ELSE edited_dataframes
                /\ pending_delete_ids' = IF w.ok THEN NoPending ELSE pending_delete_ids
                /\ report' = IF ~w.ok THEN "write_failed"
                             ELSE IF failing = {} THEN "deleted"
                             ELSE "deleted_attachment_failed"
                /\ report_count' = IF w.ok THEN Len(ids_to_delete) ELSE 0
    /\ data_at_trigger' = (IF show_delete_confirm' THEN data_at_trigger ELSE <<>>)
    /\ UNCHANGED <<project_metadata, delete_count, next_id, data_load_failed>>

(* the cancel button of render_batch_operations *)
cancel_delete ==
    /\ pc = "ready"
    /\ UNCHANGED aux_vars
    /\ data_at_trigger' = <<>>
    /\ show_delete_confirm
    /\ clock < MaxOps
    /\ clock' = clock + 1
    /\ op' = "cancel_delete"
    /\ delete_attempts' = {}
    /\ report_count' = 0
    /\ pc' = "render"
    /\ report' = "none"
    /\ wres' = "none"
    /\ data' = RunStart(data, project_metadata)
    /\ show_delete_confirm' = FALSE
    /\ UNCHANGED <<project_metadata, edited_dataframes, pending_delete_ids,
                   delete_count, next_id, data_load_failed, sheet_data, sheet_meta,
                   gcs>>

----------------------------------------------------------------------------
(* Sidebar handlers *)

(* variant: only the first quote of the project is renamed *)
RenameRows_FirstOnly(df, target_proj, new_name) ==
    [i \in 1..Len(df) |->
        IF df[i].proj = target_proj /\ \A j \in 1..(i - 1) : df[j].proj # target_proj
        THEN [df[i] EXCEPT !.proj = new_name] ELSE df[i]]

RenameRows(df, target_proj, new_name) ==
    [i \in 1..Len(df) |->
        IF df[i].proj = target_proj THEN [df[i] EXCEPT !.proj = new_name] ELSE df[i]]

(* pop(target_proj) followed by project_metadata[new_name] = meta *)
RenameKey(metadata, target_proj, new_name) ==
    [n \in (DOMAIN metadata \ {target_proj}) \cup {new_name} |->
        IF n = new_name THEN metadata[target_proj] ELSE metadata[n]]

(* variant: only the empty name is rejected *)
RenameRejected_EmptyOnly(target_proj, new_name) == new_name = ""

RenameRejected(target_proj, new_name) ==
    \/ new_name = ""
    \/ target_proj # new_name /\ new_name \in DOMAIN project_metadata

handle_project_modification(target_proj, new_name, outcome) ==
    /\ pc = "ready"
    /\ UNCHANGED aux_vars
    /\ UNCHANGED data_at_trigger
    /\ clock < MaxOps
    /\ target_proj \in DOMAIN project_metadata
    /\ clock' = clock + 1
    /\ op' = "rename_project"
    /\ delete_attempts' = {}
    /\ report_count' = 0
    /\ pc' = "render"
    /\ LET df0 == RunStart(data, project_metadata)
           md  == RenameKey(project_metadata, target_proj, new_name)
           df1 == RenameRows(df0, target_proj, new_name)
           w   == write_data_to_sheets(df1, md, outcome)
       IN  IF RenameRejected(target_proj, new_name)
           THEN /\ report' = "rename_rejected"
                /\ wres' = "none"
                /\ data' = df0
                /\ UNCHANGED <<project_metadata, sheet_data, sheet_meta>>
           ELSE /\ project_metadata' = md
                /\ data' = df1
                /\ sheet_data' = w.sd
                /\ sheet_meta' = w.sm
                /\ wres' = w.wres
                /\ report' = IF w.ok THEN "project_renamed" ELSE "write_failed"
    /\ UNCHANGED <<edited_dataframes, show_delete_confirm, pending_delete_ids,
                   delete_count, next_id, data_load_failed, gcs>>

(* variant: the quotes of the project are kept *)
RowsOfOtherProjects_All(df, project_to_delete) == df

(* data[data['專案名稱'] != project_to_delete].reset_index(drop=True) *)
RowsOfOtherProjects(df, project_to_delete) ==
    SelectSeq(df, LAMBDA r : r.proj # project_to_delete)

handle_delete_project(project_to_delete, failing, outcome) ==
    /\ pc = "ready"
    /\ UNCHANGED aux_vars
    /\ UNCHANGED data_at_trigger
    /\ clock < MaxOps
    /\ project_to_delete \in DOMAIN project_metadata
    /\ clock' = clock + 1
    /\ op' = "delete_project"
    /\ pc' = "render"
    /\ LET df0 == RunStart(data, project_metadata)
           quotes_to_delete == SelectSeq(df0, LAMBDA r : r.proj = project_to_delete)
           names == AttNames(quotes_to_delete)
           md  == [n \in DOMAIN project_metadata \ {project_to_delete} |->
                      project_metadata[n]]
           df1 == RowsOfOtherProjects(df0, project_to_delete)
           w   == write_data_to_sheets(df1, md, outcome)
       IN  /\ failing \subseteq names
           /\ delete_attempts' = names
           /\ gcs' = GcsAfterDeletes(names, failing)
           /\ project_metadata' = md
           /\ data' = df1
           /\ sheet_data' = w.sd
           /\ sheet_meta' = w.sm
           /\ wres' = w.wres
           /\ report' = IF ~w.ok THEN "write_failed"
                        ELSE IF failing = {} THEN "project_deleted"
                        ELSE "project_deleted_attachment_failed"
           /\ report_count' = IF w.ok /\ failing = {}
                               THEN Len(df0) - Len(df1) ELSE 0
    /\ UNCHANGED <<edited_dataframes, show_delete_confirm, pending_delete_ids,
                   delete_count, next_id, data_load_failed>>

handle_add_new_project(project_name, project_due_date, buffer_days, outcome) ==
    /\ pc = "ready"
    /\ UNCHANGED aux_vars
    /\ UNCHANGED data_at_trigger
    /\ clock < MaxOps
    /\ clock' = clock + 1
    /\ op' = "add_project"
    /\ delete_attempts' = {}
    /\ report_count' = 0
    /\ pc' = "render"
    /\ data' = RunStart(data, project_metadata)
    /\ LET md == [n \in DOMAIN project_metadata \cup {project_name} |->
                     IF n = project_name
                     THEN [due_date |-> project_due_date,
                           buffer_days |-> buffer_days,
                           last_modified |-> clock + 1]
                     ELSE project_metadata[n]]
           w  == write_data_to_sheets(data', md, outcome)
       IN  IF project_name = ""
           THEN /\ report' = "project_rejected"
                /\ wres' = "none"
                /\ UNCHANGED <<project_metadata, sheet_data, sheet_meta>>
           ELSE /\ project_metadata' = md
                /\ sheet_data' = w.sd
                /\ sheet_meta' = w.sm
                /\ wres' = w.wres
                /\ report' = IF w.ok THEN "project_saved" ELSE "write_failed"
    /\ UNCHANGED <<edited_dataframes, show_delete_confirm, pending_delete_ids,
                   delete_count, next_id, data_load_failed, gcs>>

(* variant: the new row takes the number of rows as its ID *)
NewQuoteRow_CountId(id, project_name, item_name, supplier, price, qty, delivery, status, latest_arrival_date, current_time_str) ==
    [ID |-> Len(data) + 1, sel |-> FALSE, proj |-> project_name, item |-> item_name,
     supplier |-> supplier, price |-> price, qty |-> qty, total |-> price * qty,
     deliv |-> delivery, status |-> status, latest |-> latest_arrival_date,
     del |-> FALSE, lastmod |-> current_time_str, att |-> NoFile, judge |-> "nan"]

(* the row handle_add_new_quote builds; latest_arrival_date is the value
   render_sidebar_ui computed for the selected project *)
NewQuoteRow(id, project_name, item_name, supplier, price, qty, delivery, status, latest_arrival_date, current_time_str) ==
    [ID |-> id, sel |-> FALSE, proj |-> project_name, item |-> item_name,
     supplier |-> supplier, price |-> price, qty |-> qty, total |-> price * qty,
     deliv |-> delivery, status |-> status, latest |-> latest_arrival_date,
     del |-> FALSE, lastmod |-> current_time_str, att |-> NoFile, judge |-> "nan"]

(* variant: only the empty-name check *)
AddQuoteRejected_EmptyOnly(project_name, item_name) ==
    project_name = "" \/ item_name = ""

(* project_metadata.get(project_name, {'due_date': today, 'buffer_days': 7}) *)
SidebarMeta(metadata, project_name, today) ==
    IF project_name \in DOMAIN metadata THEN metadata[project_name]
    ELSE [due_date |-> today, buffer_days |-> 7]

AddQuoteRejected(project_name, item_name) ==
    \/ project_name = "" \/ item_name = ""
    \/ project_name \notin DOMAIN project_metadata

handle_add_new_quote(project_name, item_name, supplier, price, qty, delivery, outcome) ==
    /\ pc = "ready"
    /\ UNCHANGED aux_vars
    /\ UNCHANGED data_at_trigger
    /\ clock < MaxOps
    /\ clock' = clock + 1
    /\ op' = "add_quote"
    /\ delete_attempts' = {}
    /\ report_count' = 0
    /\ pc' = "render"
    /\ LET df0 == RunStart(data, project_metadata)
       IN  IF AddQuoteRejected(project_name, item_name)
           THEN /\ report' = "quote_rejected"
                /\ wres' = "none"
                /\ data' = df0
                /\ UNCHANGED <<next_id, sheet_data, sheet_meta>>
           ELSE LET meta == SidebarMeta(project_metadata, project_name, clock + 1)
                    new_row == NewQuoteRow(next_id, project_name, item_name, supplier,
                                   price, qty, delivery, STATUS_OPTIONS[1],
                                   meta.due_date - meta.buffer_days, clock + 1)
                    df1 == Append(df0, new_row)
                    w   == write_data_to_sheets(df1, project_metadata, outcome)
                IN  /\ next_id' = next_id + 1
                    /\ data' = df1
                    /\ sheet_data' = w.sd
                    /\ sheet_meta' = w.sm
                    /\ wres' = w.wres
                    /\ report' = IF w.ok THEN "quote_added" ELSE "write_failed"
    /\ UNCHANGED <<project_metadata, edited_dataframes, show_delete_confirm,
                   pending_delete_ids, delete_count, data_load_failed, gcs>>

----------------------------------------------------------------------------
(* Attachment module: the upload button of render_attachment_module, which
   the script reaches after render_project_tables *)

UploadFileName == "q.pdf"

(* variant: a blob name is returned although the upload raised *)
upload_file_to_gcs_AlwaysName(quote_id, uploaded) ==
    BlobName(quote_id, UploadFileName)

(* the blob name, or None (NoFile here) when blob.upload_from_string raised *)
upload_file_to_gcs(quote_id, uploaded) ==
    IF uploaded THEN BlobName(quote_id, UploadFileName) ELSE NoFile

upload_attachment(selected_quote_id, uploaded, outcome) ==
    /\ pc = "ready"
    /\ UNCHANGED aux_vars
    /\ UNCHANGED data_at_trigger
    /\ clock < MaxOps
    /\ selected_quote_id \in Ids(data)
    /\ clock' = clock + 1
    /\ op' = "upload"
    /\ delete_attempts' = {}
    /\ report_count' = 0
    /\ pc' = "render"
    /\ LET df0 == RunStart(data, project_metadata)
           new_gcs_object_name == upload_file_to_gcs(selected_quote_id, uploaded)
           idx == IndexOfID(df0, selected_quote_id)
           df1 == [df0 EXCEPT ![idx].att = new_gcs_object_name,
                              ![idx].lastmod = clock + 1]
           w   == write_data_to_sheets(df1, project_metadata, outcome)
       IN  /\ edited_dataframes' = render_project_tables(df0, edited_dataframes)
           /\ gcs' = IF uploaded
                     THEN gcs \cup {BlobName(selected_quote_id, UploadFileName)}
                     ELSE gcs
           /\ IF new_gcs_object_name = NoFile
              THEN /\ report' = "upload_failed"
                   /\ wres' = "none"
                   /\ data' = df0
                   /\ UNCHANGED <<sheet_data, sheet_meta>>
              ELSE /\ data' = df1
                   /\ sheet_data' = w.sd
                   /\ sheet_meta' = w.sm
                   /\ wres' = w.wres
                   /\ report' = IF w.ok THEN "uploaded" ELSE "write_failed"
    /\ UNCHANGED <<project_metadata, show_delete_confirm, pending_delete_ids,
                   delete_count, next_id, data_load_failed>>

----------------------------------------------------------------------------
(* Script runs without a handler *)

(* the rerun a handler asked for, or the rest of the run it returned into *)
Render ==
    /\ pc = "render"
    /\ UNCHANGED aux_vars
    /\ UNCHANGED data_at_trigger
    /\ pc' = "ready"
    /\ op' = "render"
    /\ delete_attempts' = {}
    /\ report_count' = 0
    /\ report' = "none"
    /\ wres' = "none"
    /\ data' = RunStart(data, project_metadata)
    /\ edited_dataframes' = render_project_tables(data', edited_dataframes)
    /\ UNCHANGED <<project_metadata, show_delete_confirm, pending_delete_ids,
                   delete_count, next_id, data_load_failed, sheet_data, sheet_meta,
                   gcs, clock>>

CellValues(col) ==
    IF col \in bool_cols THEN BOOLEAN
    ELSE IF col = "supplier" THEN Suppliers
    ELSE IF col = "price" THEN Prices
    ELSE IF col = "qty" THEN Qtys
    ELSE IF col = "status" THEN Range(STATUS_OPTIONS)
    ELSE Dates \cup {NaT}

(* the project whose editor is written last under the key item_name *)
LastProject(df, item_name) ==
    LET ranks == {Rank(ProjectNames, df[i].proj) :
                     i \in {j \in 1..Len(df) : df[j].item = item_name}}
    IN  ProjectNames[MaxOf(ranks)]

RowIndex(rows, id) ==
    IF \E j \in 1..Len(rows) : rows[j].ID = id
    THEN CHOOSE j \in 1..Len(rows) : rows[j].ID = id
    ELSE 0

(* the user types value into the cell (quote id, col) of a data editor
   (enabled only while no delete is pending) and the script reruns; only the
   editor written last under its item_name reaches the buffer *)
EditCell(id, col, value) ==
    /\ pc = "ready"
    /\ UNCHANGED aux_vars
    /\ UNCHANGED data_at_trigger
    /\ ~show_delete_confirm
    /\ clock < MaxOps
    /\ IndexOfID(data, id) # 0
    /\ LET q == data[IndexOfID(data, id)]
           b == BufIndex(edited_dataframes, q.item)
       IN  /\ q.proj = LastProject(data, q.item)
           /\ b # 0
           /\ RowIndex(edited_dataframes[b].rows, id) # 0
           /\ LET j == RowIndex(edited_dataframes[b].rows, id)
              IN  /\ value \in CellValues(col)
                  /\ value # edited_dataframes[b].rows[j][col]
                  /\ data' = RunStart(data, project_metadata)
                  /\ edited_dataframes' =
                        render_project_tables(data',
                            [edited_dataframes EXCEPT ![b].rows[j][col] = value])
    /\ clock' = clock + 1
    /\ op' = "edit"
    /\ delete_attempts' = {}
    /\ report_count' = 0
    /\ report' = "none"
    /\ wres' = "none"
    /\ UNCHANGED <<project_metadata, show_delete_confirm, pending_delete_ids,
                   delete_count, next_id, data_load_failed, sheet_data, sheet_meta,
                   gcs, pc>>

----------------------------------------------------------------------------
(* Initial state: the session right after initialize_session_state *)

Quote(id, sel, proj, item, supplier, price, qty, total, deliv, status, latest, att, del) ==
    [ID |-> id, sel |-> sel, proj |-> proj, item |-> item, supplier |-> supplier,
     price |-> price, qty |-> qty, total |-> total, deliv |-> deliv,
     status |-> status, latest |-> latest, del |-> del, lastmod |-> 0,
     att |-> att, judge |-> "nan"]

StoredMeta ==
    [n \in {"A", "B"} |->
        IF n = "A" THEN [due_date |-> 5, buffer_days |-> 1, last_modified |-> 0]
        ELSE [due_date |-> 4, buffer_days |-> 1, last_modified |-> 0]]

(* the sheet a session finds: projects A and B both have an item X; quotes
   1 and 2 carry a total that is not price * qty; quote 2 is flagged for
   deletion and has a file *)
StoredQuotes ==
    << Quote(1, FALSE, "A", "X", "s1", 2, 1, 5, 2, "inquiry", 4, NoFile, FALSE),
       Quote(2, TRUE,  "B", "X", "s2", 1, 2, 3, 4, "quoted", 3, BlobName(2, "old.pdf"), TRUE),
       Quote(3, FALSE, "B", "Y", "s2", 2, 2, 4, NaT, "inquiry", 3, NoFile, FALSE) >>

EmptyMeta == [n \in {} |-> 0]

(* the defaults of initialize_session_state, before any event *)
FreshSession ==
    /\ data_at_trigger = <<>>
    /\ edited_dataframes = <<>>
    /\ show_delete_confirm = FALSE
    /\ pending_delete_ids = NoPending
    /\ delete_count = 0
    /\ pc = "render"
    /\ clock = 0
    /\ op = "load"
    /\ report = "none"
    /\ wres = "none"
    /\ delete_attempts = {}
    /\ report_count = 0

InitCommon ==
    /\ sheet_data = ExportData(StoredQuotes)
    /\ sheet_meta = ExportMeta(StoredMeta)
    /\ gcs = AttNames(StoredQuotes)
    /\ FreshSession

(* load_data_from_sheets succeeded *)
InitLoaded ==
    /\ InitCommon
    /\ data = StoredQuotes
    /\ project_metadata = StoredMeta
    /\ data_load_failed = FALSE
    /\ next_id = MaxOf(Ids(StoredQuotes)) + 1

(* load_data_from_sheets raised: empty table, no metadata, latch set *)
InitLoadFailed ==
    /\ InitCommon
    /\ data = <<>>
    /\ project_metadata = EmptyMeta
    /\ data_load_failed = TRUE
    /\ next_id = 1

(* one session, no function under separate check *)
SingleSession == active = "A" /\ parked = <<>>

NoCall == arg = <<>> /\ result = <<>>

Init == (InitLoaded \/ InitLoadFailed) /\ SingleSession /\ NoCall

(* the cells the user edits in the model: every editable column, the
   deletion flag of both rows, a date set and a date cleared *)
EditInputs ==
    { <<2, "del", FALSE>>, <<2, "deliv", NaT>>, <<2, "price", 2>>,
      <<3, "del", TRUE>>, <<3, "sel", TRUE>>, <<3, "supplier", "s1">>,
      <<3, "qty", 1>>, <<3, "status", "quoted">>, <<3, "deliv", 4>> }

Next ==
    \/ Render
    \/ \E e \in EditInputs : EditCell(e[1], e[2], e[3])
    \/ \E outcome \in WriteOutcomes : handle_master_save(outcome)
    \/ trigger_delete_confirmation
    \/ \E failing \in SUBSET AttNames(data), outcome \in WriteOutcomes :
          handle_batch_delete_quotes(failing, outcome)
    \/ cancel_delete
    \/ \E t \in {"A", "B"}, n \in {"", "A", "B", "C"}, outcome \in WriteOutcomes :
          handle_project_modification(t, n, outcome)
    \/ \E failing \in SUBSET AttNames(data), outcome \in WriteOutcomes :
          \E t \in {"A", "B"} : handle_delete_project(t, failing, outcome)
    \/ \E n \in {"", "A"}, outcome \in WriteOutcomes :
          handle_add_new_project(n, 4, 2, outcome)
    \/ \E p \in {"", "A"}, it \in {"", "X"}, outcome \in WriteOutcomes :
          handle_add_new_quote(p, it, "s1", 2, 2, 4, outcome)
    \/ \E q \in {1, 3}, uploaded \in BOOLEAN, outcome \in WriteOutcomes :
          upload_attachment(q, uploaded, outcome)

Spec == Init /\ [][Next]_vars

----------------------------------------------------------------------------
(* Properties *)

TotalOk(r) == r.total = r.price * r.qty

(* positions <<snapshot, row>> of the Edit Buffer *)
Positions(buf) ==
    UNION {{<<b, j>> : j \in 1..Len(buf[b].rows)} : b \in 1..Len(buf)}

RowAt(buf, p) == buf[p[1]].rows[p[2]]

Occurrences(buf, id) == {p \in Positions(buf) : RowAt(buf, p).ID = id}

(* IDs of canonical quotes whose effective deletion flag is true: the flag
   of the snapshot row when the ID is in a snapshot, else the canonical one *)
EffectivelyFlagged(df, buf) ==
    {df[k].ID : k \in {i \in 1..Len(df) :
        IF Occurrences(buf, df[i].ID) = {} THEN df[i].del
        ELSE {RowAt(buf, p).del : p \in Occurrences(buf, df[i].ID)} = {TRUE}}}

(* every snapshot row equals the canonical quote with the same ID *)
SnapshotsIdentical ==
    \A p \in Positions(edited_dataframes) :
        LET r == RowAt(edited_dataframes, p)
        IN  IndexOfID(data, r.ID) # 0 => r = data[IndexOfID(data, r.ID)]

SnapshotTotalsOk ==
    \A p \in Positions(edited_dataframes) :
        LET r == RowAt(edited_dataframes, p)
        IN  IndexOfID(data, r.ID) # 0 => TotalOk(data[IndexOfID(data, r.ID)])

NoOpSave ==
    /\ wres' = "none"
    /\ report' = "nothing_to_save"
    /\ data' = data
    /\ project_metadata' = project_metadata
    /\ edited_dataframes' = edited_dataframes
    /\ sheet_data' = sheet_data
    /\ sheet_meta' = sheet_meta

(* C1: after a master save that found a dirty row and persisted, every quote
   of the canonical set has total = unit price * quantity, also the quotes
   that are in no snapshot and the ones loaded with an inconsistent total *)
C1_AllTotalsAfterSave ==
    (op = "master_save" /\ report = "saved") =>
        \A i \in 1..Len(data) : TotalOk(data[i])

(* C2 as stated: when every snapshot row is identical to its canonical quote
   (or the buffer is empty) master save writes nothing, changes nothing and
   reports nothing to save *)
C2_IdenticalIsNoOp ==
    [][(op' = "master_save" /\ SnapshotsIdentical) => NoOpSave]_vars

(* C2 as amended: the same, provided the stored total of every quote that
   has a snapshot row equals unit price * quantity *)
C2_IdenticalConsistentIsNoOp ==
    [][(op' = "master_save" /\ SnapshotsIdentical /\ SnapshotTotalsOk) => NoOpSave]_vars

C2_Witness ==
    /\ op = "master_save" /\ report = "nothing_to_save"
    /\ edited_dataframes # <<>>
    /\ SnapshotsIdentical /\ SnapshotTotalsOk

(* C3 as stated: after a master save with a dirty row the Record Store holds
   the updated canonical quotes and the Edit Buffer is empty *)
C3_StoreEqualsCanonical ==
    (op = "master_save" /\ report # "nothing_to_save") =>
        (sheet_data = ExportData(data) /\ edited_dataframes = <<>>)

(* C3 as amended: after a master save with a dirty row whose Record Store
   write succeeded, the Record Store holds the updated canonical quotes and
   the Edit Buffer is empty *)
C3_StoreEqualsCanonicalWhenSaved ==
    (op = "master_save" /\ report = "saved") =>
        (sheet_data = ExportData(data) /\ edited_dataframes = <<>>)

C3_Witness ==
    /\ op = "master_save" /\ report = "saved"
    /\ \E i \in 1..Len(data) : data[i].lastmod = clock

(* C4: for a snapshot row whose ID is canonical and in exactly one snapshot,
   after master save each of the seven editable attributes of the quote
   equals the edited value (a cleared delivery date included), and the row is
   stamped iff an attribute differed or the stored total was stale *)
C4_EditsApplied ==
    [][op' = "master_save" =>
        \A p \in Positions(edited_dataframes) :
            LET r   == RowAt(edited_dataframes, p)
                idx == IndexOfID(data, r.ID)
            IN  (idx # 0 /\ Cardinality(Occurrences(edited_dataframes, r.ID)) = 1) =>
                  /\ \A c \in editable_cols : data'[idx][c] = r[c]
                  /\ (data'[idx].lastmod = clock + 1) <=>
                        ((\E c \in editable_cols : data[idx][c] # r[c])
                            \/ ~TotalOk(data[idx]))]_vars

(* C5: trigger with no effectively flagged quote stays Idle, leaves no
   pending set and changes neither canonical state nor the Record Store;
   otherwise it enters Confirming with the flagged IDs pending and their
   number recorded *)
C5_Trigger ==
    [][op' = "trigger" =>
        LET F == EffectivelyFlagged(data, edited_dataframes)
        IN  IF F = {}
            THEN /\ ~show_delete_confirm' /\ ~pending_delete_ids'.present
                 /\ data' = data /\ project_metadata' = project_metadata
                 /\ sheet_data' = sheet_data /\ sheet_meta' = sheet_meta
            ELSE /\ show_delete_confirm' /\ pending_delete_ids'.present
                 /\ Range(pending_delete_ids'.ids) = F
                 /\ delete_count' = Cardinality(F)]_vars

C5_Witness ==
    /\ op = "trigger" /\ show_delete_confirm
    /\ delete_count = 2
    /\ Cardinality(Range(pending_delete_ids.ids)) = 2

(* C6: the IDs trigger captures are exactly the canonical IDs whose
   effective flag is true; an ID flagged only in canonical state and
   unflagged in its snapshot is left out, an ID that is only in the buffer is
   never captured *)
C6_CapturedSet ==
    op = "trigger" =>
        /\ Range(pending_delete_ids.ids) = EffectivelyFlagged(data, edited_dataframes)
        /\ pending_delete_ids.present <=> (pending_delete_ids.ids # <<>>)
        /\ Range(pending_delete_ids.ids) \subseteq Ids(data)
        /\ \A i \in 1..Len(data) :
              (\E p \in Occurrences(edited_dataframes, data[i].ID) :
                    ~RowAt(edited_dataframes, p).del)
                 => data[i].ID \notin Range(pending_delete_ids.ids)

C6_Witness ==
    /\ op = "trigger" /\ pending_delete_ids.present
    /\ \E i \in 1..Len(data) :
          data[i].del /\ data[i].ID \notin Range(pending_delete_ids.ids)

PendingFrozen ==
    (show_delete_confirm /\ op' \notin {"confirm_delete", "cancel_delete"}) =>
        (pending_delete_ids' = pending_delete_ids /\ delete_count' = delete_count)

(* C7 as stated: in Confirming only confirm and cancel change the pending
   set and its count, and confirm removes exactly the captured IDs *)
C7_FrozenRemovesCaptured ==
    [][/\ PendingFrozen
       /\ (op' = "confirm_delete" /\ pending_delete_ids.present) =>
             Ids(data) \ Ids(data') = Range(pending_delete_ids.ids)]_vars

(* C7 as amended: in Confirming only confirm and cancel change the pending
   set and its count, and confirm removes exactly the captured IDs that are
   still in canonical state *)
C7_FrozenRemovesCapturedPresent ==
    [][/\ PendingFrozen
       /\ (op' = "confirm_delete" /\ pending_delete_ids.present) =>
             /\ Ids(data) \ Ids(data') = Range(pending_delete_ids.ids) \cap Ids(data)
             /\ Ids(data') \subseteq Ids(data)]_vars

C7_Witness ==
    /\ op = "confirm_delete" /\ report = "deleted"
    /\ delete_count = 1
    /\ Ids(data) = {1}

(* C8: in Confirming neither master save nor trigger runs, and no step but
   confirm changes an editable attribute of a canonical quote or recaptures
   the pending set *)
C8_Exclusive ==
    [][show_delete_confirm =>
        /\ op' \notin {"master_save", "trigger", "edit"}
        /\ op' # "confirm_delete" =>
              \A i \in 1..Len(data) : \A j \in 1..Len(data') :
                  data'[j].ID = data[i].ID =>
                      \A c \in editable_cols : data'[j][c] = data[i][c]]_vars

C8_Witness ==
    /\ show_delete_confirm /\ pc = "ready"
    /\ \E p \in Positions(edited_dataframes) :
          LET r == RowAt(edited_dataframes, p)
          IN  /\ IndexOfID(data, r.ID) # 0
              /\ \E c \in editable_cols : r[c] # data[IndexOfID(data, r.ID)][c]

(* C9: cancel returns to Idle, leaves no pending set in the session and
   changes neither canonical quotes, metadata, Edit Buffer, Record Store nor
   the attachments *)
C9_CancelDiscards ==
    [][op' = "cancel_delete" =>
        /\ ~show_delete_confirm'
        /\ ~pending_delete_ids'.present
        /\ data' = data /\ project_metadata' = project_metadata
        /\ edited_dataframes' = edited_dataframes
        /\ sheet_data' = sheet_data /\ sheet_meta' = sheet_meta
        /\ gcs' = gcs]_vars

ConfirmEffect ==
    /\ \A j \in 1..Len(data') : data'[j].ID \notin Range(pending_delete_ids.ids)
    /\ \A i \in 1..Len(data) :
          data[i].ID \notin Range(pending_delete_ids.ids) =>
              \E j \in 1..Len(data') : data'[j] = data[i]
    /\ Len(data') <= Len(data)
    /\ sheet_data' = ExportData(data')
    /\ edited_dataframes' = <<>>
    /\ ~pending_delete_ids'.present
    /\ ~show_delete_confirm'

(* C10 as stated: after confirm with a non-empty pending set no pending ID
   is canonical, the Record Store holds the reduced set, buffer and pending
   set are cleared, the coordinator is Idle and the other quotes are kept *)
C10_ConfirmCommits ==
    [][(op' = "confirm_delete" /\ pending_delete_ids.present
            /\ pending_delete_ids.ids # <<>>) => ConfirmEffect]_vars

(* C10 as amended: the same, when the Record Store write of the confirm
   succeeded *)
C10_ConfirmCommitsWhenWritten ==
    [][(op' = "confirm_delete" /\ pending_delete_ids.present
            /\ pending_delete_ids.ids # <<>> /\ wres' = "ok") => ConfirmEffect]_vars

C10_Witness ==
    /\ op = "confirm_delete" /\ report = "deleted"
    /\ data # <<>>
    /\ sheet_data = ExportData(data)
    /\ edited_dataframes = <<>>
    /\ ~show_delete_confirm

(* C11: confirm asks the Attachment Store to delete the attachment of every
   pending quote that has one, and whatever those deletes answer, every
   pending ID leaves canonical state and the reduced set is handed to the
   Record Store write *)
C11_DeleteFailuresTolerated ==
    [][(op' = "confirm_delete" /\ pending_delete_ids.present
            /\ pending_delete_ids.ids # <<>>) =>
        LET P == Range(pending_delete_ids.ids)
        IN  /\ \A i \in 1..Len(data) :
                  (data[i].ID \in P /\ data[i].att # NoFile) =>
                      data[i].att \in delete_attempts'
            /\ \A j \in 1..Len(data') : data'[j].ID \notin P
            /\ wres' # "none"
            /\ wres' \in {"ok", "partial"} => sheet_data' = ExportData(data')]_vars

C11_Witness ==
    /\ op = "confirm_delete"
    /\ delete_attempts # {}
    /\ delete_attempts \subseteq gcs
    /\ 2 \notin Ids(data)
    /\ sheet_data = ExportData(data)

(* C12: the number of records a successful confirm reports as deleted is
   the number of quotes that confirm removed from canonical state *)
C12_ReportedCountIsRemoved ==
    [][(op' = "confirm_delete" /\ wres' = "ok") =>
        report_count' = Len(data) - Len(data')]_vars

(* in memory: metadata re-keyed from P to N with the same entry, the quotes
   of P carry N, everything else as before *)
RenamedInMemory(P, N) ==
    /\ DOMAIN project_metadata' = (DOMAIN project_metadata \ {P}) \cup {N}
    /\ project_metadata'[N] = project_metadata[P]
    /\ \A n \in DOMAIN project_metadata \ {P} :
          project_metadata'[n] = project_metadata[n]
    /\ Cardinality(DOMAIN project_metadata') = Cardinality(DOMAIN project_metadata)
    /\ Len(data') = Len(data)
    /\ \A i \in 1..Len(data) :
          data'[i] = IF data[i].proj = P THEN [data[i] EXCEPT !.proj = N]
                     ELSE data[i]

RenameAccepted == op' = "rename_project" /\ report' # "rename_rejected"

StoreAllOld == sheet_data' = sheet_data /\ sheet_meta' = sheet_meta

StoreAllNew ==
    sheet_data' = ExportData(data') /\ sheet_meta' = ExportMeta(project_metadata')

(* C13 as stated: an accepted rename of P to N re-keys the metadata and
   renames the quotes of P, touches nothing else, and leaves the Record
   Store either as it was or holding the renamed state, never in between *)
C13_RenameAtomic ==
    [][RenameAccepted =>
        /\ \E P \in DOMAIN project_metadata : \E N \in Range(ProjectNames) :
              (N = P \/ N \notin DOMAIN project_metadata) /\ RenamedInMemory(P, N)
        /\ StoreAllOld \/ StoreAllNew]_vars

(* C13 as amended: the in-memory effect is as stated; the Record Store holds
   the renamed state when the write succeeded, its previous content when the
   write failed before the first overwrite, and the renamed quote rows with
   the previous project rows when the metadata overwrite failed *)
C13_RenameInMemoryAtomic ==
    [][RenameAccepted =>
        /\ \E P \in DOMAIN project_metadata : \E N \in Range(ProjectNames) :
              (N = P \/ N \notin DOMAIN project_metadata) /\ RenamedInMemory(P, N)
        /\ wres' = "ok" => StoreAllNew
        /\ wres' \in {"failed", "disabled"} => StoreAllOld
        /\ wres' = "partial" =>
              (sheet_data' = ExportData(data') /\ sheet_meta' = sheet_meta)]_vars

C13_Witness ==
    /\ op = "rename_project" /\ report = "project_renamed"
    /\ "C" \in DOMAIN project_metadata
    /\ "B" \notin DOMAIN project_metadata
    /\ Cardinality({i \in 1..Len(data) : data[i].proj = "C"}) = 2
    /\ sheet_data = ExportData(data)

(* C14: a rename to the empty name or to the name of another existing
   project is rejected before any mutation: metadata, quotes, Edit Buffer
   and Record Store stay as they are and no write is issued; so no rename
   ever moves quotes into, or overwrites the entry of, a project that
   already existed, or produces a project with the empty name *)
C14_RenameRejected ==
    [][op' = "rename_project" =>
        /\ report' = "rename_rejected" =>
              /\ data' = data
              /\ project_metadata' = project_metadata
              /\ edited_dataframes' = edited_dataframes
              /\ StoreAllOld
              /\ wres' = "none"
        /\ "" \notin DOMAIN project_metadata'
        /\ \A n \in DOMAIN project_metadata \cap DOMAIN project_metadata' :
              project_metadata'[n] = project_metadata[n]
        /\ \A i \in 1..Len(data) :
              data'[i].proj # data[i].proj =>
                  data'[i].proj \notin DOMAIN project_metadata \cup {""}]_vars

C14_Witness ==
    /\ op = "rename_project" /\ report = "rename_rejected"
    /\ edited_dataframes # <<>>
    /\ DOMAIN project_metadata = {"A", "B"}
    /\ sheet_data = ExportData(StoredQuotes)

(* C15: after delete-project(P), P has no metadata entry and no canonical
   quote carries P; the Attachment Store was asked to delete the attachment
   of every removed quote that had one, whatever it answered; the quotes and
   metadata of the other projects are as before *)
C15_DeleteProject ==
    [][op' = "delete_project" =>
        \E P \in DOMAIN project_metadata :
            /\ DOMAIN project_metadata' = DOMAIN project_metadata \ {P}
            /\ \A n \in DOMAIN project_metadata' :
                  project_metadata'[n] = project_metadata[n]
            /\ \A j \in 1..Len(data') : data'[j].proj # P
            /\ \A i \in 1..Len(data) :
                  data[i].proj # P => \E j \in 1..Len(data') : data'[j] = data[i]
            /\ Len(data') =
                  Cardinality({i \in 1..Len(data) : data[i].proj # P})
            /\ \A i \in 1..Len(data) :
                  (data[i].proj = P /\ data[i].att # NoFile) =>
                      data[i].att \in delete_attempts']_vars

C15_Witness ==
    /\ op = "delete_project" /\ report = "project_deleted_attachment_failed"
    /\ Ids(data) = {1}
    /\ "B" \notin DOMAIN project_metadata
    /\ delete_attempts # {}
    /\ delete_attempts \subseteq gcs

(* C16: a session whose load failed starts with no quotes and no project
   metadata, keeps the latch for good, and none of its steps changes either
   worksheet of the Record Store: every write is refused *)
C16_LatchDisablesWrites ==
    /\ []((data_load_failed /\ clock = 0) =>
            (data = <<>> /\ DOMAIN project_metadata = {}))
    /\ [][data_load_failed =>
            /\ data_load_failed'
            /\ StoreAllOld
            /\ wres' \in {"none", "disabled"}]_vars

C16_Witness ==
    /\ data_load_failed
    /\ op = "upload" /\ wres = "disabled"
    /\ \E i \in 1..Len(data) : data[i].att # NoFile
    /\ sheet_data = ExportData(StoredQuotes)
    /\ sheet_meta = ExportMeta(StoredMeta)

(* a row of data' is either a row data already had under the same ID, or the
   row add quote appended under the ID next_id *)
IdsKept ==
    \A j \in 1..Len(data') :
        \/ \E i \in 1..Len(data) :
              data[i].ID = data'[j].ID /\ data[i].item = data'[j].item
        \/ /\ op' = "add_quote"
           /\ j = Len(data') /\ Len(data') = Len(data) + 1
           /\ data'[j].ID = next_id
           /\ next_id' = next_id + 1

(* C17: the IDs of the canonical quotes are pairwise distinct and all below
   next_id; no step changes the ID of a quote it keeps, next_id never
   decreases and add quote hands out next_id, so a new ID is greater than
   every ID the session has ever held and no ID is used twice *)
C17_IdsUniqueMonotone ==
    /\ [](Cardinality(Ids(data)) = Len(data))
    /\ [](\A i \in 1..Len(data) : data[i].ID < next_id)
    /\ [][next_id' >= next_id /\ IdsKept]_vars

C17_Witness ==
    /\ op = "add_quote" /\ report = "quote_added"
    /\ Ids(data) = {1, 4}
    /\ next_id = 5

QuoteAppended == op' = "add_quote" /\ Len(data') = Len(data) + 1

(* id is the largest ID of df plus one, or 1 when df is empty *)
IsMaxPlusOne(id, df) ==
    IF df = <<>> THEN id = 1
    ELSE id - 1 \in Ids(df) /\ \A x \in Ids(df) : x < id

(* C18 as stated: add quote gives the new quote the largest ID now in the
   canonical set plus one, or 1 when the set is empty *)
C18_NewIdIsMaxPlusOne ==
    [][QuoteAppended => IsMaxPlusOne(data'[Len(data')].ID, data)]_vars

(* C18 as amended: next-ID starts as the largest loaded ID plus one (1 for
   an empty set), add quote gives the new quote next-ID and advances it by
   one, and no other step changes it, deletions included *)
C18_NewIdIsNextId ==
    /\ [](clock = 0 => IsMaxPlusOne(next_id, data))
    /\ [][/\ QuoteAppended =>
                (data'[Len(data')].ID = next_id /\ next_id' = next_id + 1)
          /\ ~QuoteAppended => next_id' = next_id]_vars

C18_Witness ==
    /\ op = "add_quote" /\ report = "quote_added"
    /\ Len(data) = 4 /\ data[4].ID = 4
    /\ next_id = 5

LatestOf(metadata, p) == metadata[p].due_date - metadata[p].buffer_days

(* C19: every quote of a project that has metadata carries
   latest-allowable-arrival = due date - buffer days, in canonical state once
   the page is drawn and in the quote rows of every completed Record Store
   write, the write of add-or-update-project included *)
C19_LatestArrivalEverywhere ==
    /\ pc = "ready" =>
          \A i \in 1..Len(data) :
              data[i].proj \in DOMAIN project_metadata =>
                  data[i].latest = LatestOf(project_metadata, data[i].proj)
    /\ wres = "ok" =>
          \A i \in 1..Len(sheet_data) :
              sheet_data[i].proj \in DOMAIN project_metadata =>
                  sheet_data[i].latest =
                      DateStr(LatestOf(project_metadata, sheet_data[i].proj))

(* C20: an upload that fails changes no quote and issues no write, and in
   every state each attachment reference of a canonical quote names a blob
   that is in the Attachment Store *)
C20_NoDanglingAttachment ==
    /\ [](\A i \in 1..Len(data) : data[i].att # NoFile => data[i].att \in gcs)
    /\ [][(op' = "upload" /\ report' = "upload_failed") =>
            /\ data' = data
            /\ StoreAllOld
            /\ wres' = "none"
            /\ gcs' = gcs]_vars

C20_Witness ==
    /\ op = "upload" /\ report = "upload_failed"
    /\ Ids(data) = {1, 2, 3}
    /\ \A i \in 1..Len(data) : data[i].ID # 2 => data[i].att = NoFile
    /\ gcs = AttNames(StoredQuotes)
    /\ sheet_data = ExportData(StoredQuotes)

(* C22: once the tables are drawn, every (project, item) group has its own
   snapshot: every canonical quote is a row of some snapshot of the Edit
   Buffer, also when another project has a group with the same item name *)
C22_SnapshotPerGroup ==
    pc = "ready" =>
        \A i \in 1..Len(data) : Occurrences(edited_dataframes, data[i].ID) # {}

(* the Edit Buffer without the rows whose ID is not in df *)
KnownRows(buf, df) ==
    [b \in 1..Len(buf) |->
        [key |-> buf[b].key,
         rows |-> SelectSeq(buf[b].rows, LAMBDA r : IndexOfID(df, r.ID) # 0)]]

StaleRows(buf, df) ==
    {p \in Positions(buf) : IndexOfID(df, RowAt(buf, p).ID) = 0}

(* C24: a master save treats snapshot rows whose ID is not in canonical state
   as if they were not in the buffer: the canonical table after the save, the
   dirty verdict and the report are the ones of the buffer without those
   rows, and the save adds no quote and removes none *)
C24_StaleRowsSkipped ==
    [][op' = "master_save" =>
        LET df0 == RunStart(data, project_metadata)
            m   == Merged(df0, KnownRows(edited_dataframes, df0), clock + 1)
        IN  /\ [i \in 1..Len(data') |-> data'[i].ID] = [i \in 1..Len(data) |-> data[i].ID]
            /\ data' = (IF m.changes_detected THEN m.df ELSE df0)
            /\ (report' = "nothing_to_save") <=> ~m.changes_detected
            /\ report' \in {"nothing_to_save", "saved", "write_failed"}]_vars

(* a master save that merged a dirty row while the buffer held a row of a
   quote removed by delete project (the write failed, so the buffer is kept) *)
C24_Witness ==
    /\ op = "master_save"
    /\ report = "write_failed"
    /\ StaleRows(edited_dataframes, data) # {}
    /\ \E i \in 1..Len(data) : data[i].lastmod = clock

(* the snapshot row s makes the canonical quote r dirty: a present delivery
   date that differs, an updatable column that differs, or a total that is
   not unit price * quantity once the snapshot's price and quantity are in *)
DirtyRow(r, s) ==
    \/ s.deliv # NaT /\ s.deliv # r.deliv
    \/ \E c \in Range(updatable_cols) : s[c] # r[c]
    \/ r.total # s.price * s.qty

(* C25: in a master save the quotes with a dirty snapshot row, and only
   they, get last-modified = the time of the save; every other quote (its
   snapshot row is not dirty, or it is in no snapshot) is left as it was in
   every field, last-modified included *)
C25_OnlyDirtyRowsStamped ==
    [][op' = "master_save" =>
        /\ Len(data') = Len(data)
        /\ \A i \in 1..Len(data) :
              LET r   == data[i]
                  occ == Occurrences(edited_dataframes, r.ID)
              IN  IF \E p \in occ : DirtyRow(r, RowAt(edited_dataframes, p))
                  THEN data'[i].lastmod = clock' /\ r.lastmod < clock'
                  ELSE data'[i] = r]_vars

(* a master save that stamped one quote and left alone both a quote with a
   clean snapshot row and a quote that is in no snapshot *)
C25_Witness ==
    /\ op = "master_save"
    /\ report = "write_failed"
    /\ \E i \in 1..Len(data) : data[i].lastmod = clock
    /\ \E j \in 1..Len(data) :
          data[j].lastmod < clock /\ Occurrences(edited_dataframes, data[j].ID) # {}
    /\ \E k \in 1..Len(data) :
          data[k].lastmod < clock /\ Occurrences(edited_dataframes, data[k].ID) = {}

(* every quote's project is a key of the project metadata *)
ReferentialIntegrity ==
    \A i \in 1..Len(data) : data[i].proj \in DOMAIN project_metadata

(* an add quote that was refused: no quote, no ID consumed, no write *)
AddQuoteRefused ==
    /\ report' = "quote_rejected"
    /\ [i \in 1..Len(data') |-> data'[i].ID] = [i \in 1..Len(data) |-> data[i].ID]
    /\ next_id' = next_id
    /\ wres' = "none"
    /\ sheet_data' = sheet_data
    /\ sheet_meta' = sheet_meta

(* C30: loaded with every quote's project in the metadata, the session keeps
   every quote's project a key of the metadata through all handlers; an add
   quote either appends one quote with a non-empty item and a project that
   is a key of the metadata, or is refused and then adds no quote, consumes
   no ID and writes nothing *)
C30_ReferentialIntegrity ==
    /\ []ReferentialIntegrity
    /\ [][op' = "add_quote" =>
            \/ AddQuoteRefused
            \/ /\ Len(data') = Len(data) + 1
               /\ data'[Len(data')].proj \in DOMAIN project_metadata
               /\ data'[Len(data')].item # ""]_vars

(* add quote for project A was refused after project A had been deleted,
   while quotes of another project remain *)
C30_Witness ==
    /\ op = "add_quote"
    /\ report = "quote_rejected"
    /\ "A" \notin DOMAIN project_metadata
    /\ data # <<>>
    /\ \E i \in 1..Len(sheet_data) : sheet_data[i].proj = "B"

----------------------------------------------------------------------------
(* Two browser sessions on one Record Store.  Each session has its own
   st.session_state; the handlers act on the active session, the other one
   is parked until the next event comes from its browser *)

SessionState ==
    [data |-> data, project_metadata |-> project_metadata,
     edited_dataframes |-> edited_dataframes,
     show_delete_confirm |-> show_delete_confirm,
     pending_delete_ids |-> pending_delete_ids, delete_count |-> delete_count,
     next_id |-> next_id, data_load_failed |-> data_load_failed, pc |-> pc,
     op |-> op, report |-> report, wres |-> wres,
     delete_attempts |-> delete_attempts, report_count |-> report_count,
     data_at_trigger |-> data_at_trigger]

(* the next event comes from the other browser *)
SwitchSession ==
    /\ parked # <<>>
    /\ active' = (IF active = "A" THEN "B" ELSE "A")
    /\ parked' = SessionState
    /\ data' = parked.data
    /\ project_metadata' = parked.project_metadata
    /\ edited_dataframes' = parked.edited_dataframes
    /\ show_delete_confirm' = parked.show_delete_confirm
    /\ pending_delete_ids' = parked.pending_delete_ids
    /\ delete_count' = parked.delete_count
    /\ next_id' = parked.next_id
    /\ data_load_failed' = parked.data_load_failed
    /\ pc' = parked.pc
    /\ op' = parked.op
    /\ report' = parked.report
    /\ wres' = parked.wres
    /\ delete_attempts' = parked.delete_attempts
    /\ report_count' = parked.report_count
    /\ data_at_trigger' = parked.data_at_trigger
    /\ UNCHANGED <<sheet_data, sheet_meta, gcs, clock, arg, result>>

(* both sessions ran initialize_session_state on the same store *)
InitTwoSessions ==
    /\ InitLoaded
    /\ NoCall
    /\ active = "A"
    /\ parked = SessionState

NextTwoSessions ==
    \/ SwitchSession
    \/ Render
    \/ EditCell(3, "supplier", "s1")
    \/ \E outcome \in WriteOutcomes : handle_master_save(outcome)
    \/ \E outcome \in WriteOutcomes :
          handle_add_new_quote("A", "X", "s1", 2, 2, 4, outcome)

SpecTwoSessions == InitTwoSessions /\ [][NextTwoSessions]_vars

(* C21: with two sessions loaded from the same store, every successful write
   leaves the store equal to the writing session's canonical quotes and
   metadata, whatever the other session wrote before: a quote only the other
   session has is not in the store, and no row of the store differs from the
   writer's row *)
C21_LastFullWriteWins ==
    [][(active' = active /\ wres' = "ok") =>
        /\ sheet_data' = ExportData(data')
        /\ sheet_meta' = ExportMeta(project_metadata')
        /\ \A i \in 1..Len(parked.data) :
              parked.data[i].ID \notin Ids(data') =>
                  \A k \in 1..Len(sheet_data') : sheet_data'[k].ID # parked.data[i].ID]_vars

(* session A added quote 4 and wrote it; then session B, which never saw
   quote 4, saved and wrote: the store has no quote 4 *)
C21_Witness ==
    /\ op = "master_save" /\ wres = "ok"
    /\ parked.op = "add_quote" /\ parked.wres = "ok"
    /\ 4 \in Ids(parked.data)
    /\ 4 \notin Ids(data)
    /\ \A k \in 1..Len(sheet_data) : sheet_data[k].ID # 4

----------------------------------------------------------------------------
(* A store in which one ID is on two rows.  load_data_from_sheets does not
   look at the IDs, so the session starts with both rows; they are in two
   groups, hence in two snapshots, and master save merges both into the
   first row with that ID *)

DuplicateIdQuotes(first_item) ==
    LET second_item == IF first_item = "X" THEN "Y" ELSE "X"
    IN  << Quote(3, FALSE, "B", first_item, "s2", 2, 2, 4, NaT, "inquiry", 3, NoFile, FALSE),
           Quote(3, FALSE, "B", second_item, "s2", 2, 2, 4, NaT, "inquiry", 3, NoFile, FALSE) >>

InitDuplicateId ==
    \E first_item \in Range(ItemNames) :
        /\ FreshSession
        /\ SingleSession
        /\ NoCall
        /\ sheet_data = ExportData(DuplicateIdQuotes(first_item))
        /\ sheet_meta = ExportMeta(StoredMeta)
        /\ gcs = {}
        /\ data = DuplicateIdQuotes(first_item)
        /\ project_metadata = StoredMeta
        /\ data_load_failed = FALSE
        /\ next_id = MaxOf(Ids(data)) + 1

NextDuplicateId ==
    \/ Render
    \/ \E e \in EditInputs : EditCell(e[1], e[2], e[3])
    \/ \E outcome \in WriteOutcomes : handle_master_save(outcome)

SpecDuplicateId == InitDuplicateId /\ [][NextDuplicateId]_vars

(* the occurrence of id in the snapshot processed last *)
LastOccurrence(buf, id) ==
    CHOOSE p \in Occurrences(buf, id) :
        \A q \in Occurrences(buf, id) :
            q[1] < p[1] \/ (q[1] = p[1] /\ q[2] <= p[2])

InSeveralSnapshots(buf, id) ==
    \E p, q \in Occurrences(buf, id) : p[1] # q[1]

(* C23: when an ID is in more than one snapshot, after master save each of
   the seven editable attributes of the canonical quote, the expected
   delivery date included, is the value of the snapshot processed last *)
C23_LastSnapshotWins ==
    [][op' = "master_save" =>
        \A id \in Ids(data) :
            InSeveralSnapshots(edited_dataframes, id) =>
                LET last == RowAt(edited_dataframes, LastOccurrence(edited_dataframes, id))
                    q    == data'[IndexOfID(data', id)]
                IN  \A c \in editable_cols : q[c] = last[c]]_vars

(* the same, except that a missing delivery date in the last snapshot row
   need not reach the canonical quote *)
C23_LastSnapshotWinsButMissingDate ==
    [][op' = "master_save" =>
        \A id \in Ids(data) :
            InSeveralSnapshots(edited_dataframes, id) =>
                LET last == RowAt(edited_dataframes, LastOccurrence(edited_dataframes, id))
                    q    == data'[IndexOfID(data', id)]
                IN  /\ \A c \in editable_cols \ {"deliv"} : q[c] = last[c]
                    /\ last.deliv # NaT => q.deliv = last.deliv]_vars

(* the two tables have the same quotes, last-modified aside *)
SameQuotes(df1, df2) ==
    /\ Len(df1) = Len(df2)
    /\ \A i \in 1..Len(df1) : [df1[i] EXCEPT !.lastmod = 0] = [df2[i] EXCEPT !.lastmod = 0]

(* C26: a master save whose merge of all snapshots gives back the canonical
   quotes it started from leaves the canonical table and the timestamps as
   they were and writes nothing *)
C26_NoEffectiveChangeNoWrite ==
    [][(op' = "master_save"
        /\ SameQuotes(Merged(data, edited_dataframes, clock').df, data)) =>
            /\ data' = data
            /\ wres' = "none"
            /\ sheet_data' = sheet_data
            /\ sheet_meta' = sheet_meta]_vars

----------------------------------------------------------------------------
(* Functions checked on their own: the group budget of
   render_project_tables, the delivery judgment of run_app and clean_bool of
   load_data_from_sheets.  arg = <<function, input>>; the action of the
   function puts its value into result *)

Totals == {80, 100}

RECURSIVE SumTotals(_)
SumTotals(rows) ==
    IF rows = <<>> THEN 0 ELSE Head(rows).total + SumTotals(Tail(rows))

MinTotal(rows) ==
    CHOOSE m \in {rows[i].total : i \in 1..Len(rows)} :
        \A i \in 1..Len(rows) : m <= rows[i].total

(* variant: with a selection, the totals of all rows are added *)
sub_total_SumAll(item_data) ==
    IF \E i \in 1..Len(item_data) : item_data[i].sel
    THEN SumTotals(item_data)
    ELSE MinTotal(item_data)

(* item_data[item_data['選取']]['總價'].sum() if has_selection
   else item_data['總價'].min() *)
sub_total(item_data) ==
    LET has_selection == \E i \in 1..Len(item_data) : item_data[i].sel
    IN  IF has_selection
        THEN SumTotals(SelectSeq(item_data, LAMBDA r : r.sel))
        ELSE MinTotal(item_data)

(* texts are sequences of characters *)
UpperChar(c) ==
    CASE c = "t" -> "T" [] c = "r" -> "R" [] c = "u" -> "U" [] c = "e" -> "E"
      [] c = "y" -> "Y" [] c = "s" -> "S" [] c = "f" -> "F" [] c = "a" -> "A"
      [] c = "l" -> "L" [] OTHER -> c

StrUpper(s) == [i \in 1..Len(s) |-> UpperChar(s[i])]

RECURSIVE StrStrip(_)
StrStrip(s) ==
    IF s = <<>> THEN s
    ELSE IF Head(s) = " " THEN StrStrip(Tail(s))
    ELSE IF s[Len(s)] = " " THEN StrStrip(SubSeq(s, 1, Len(s) - 1))
    ELSE s

(* str(x) of a cell that is not a native boolean *)
StrOf(x) == IF x.kind = "num" THEN <<IF x.v = 0 THEN "0" ELSE "1">> ELSE x.v

(* variant: blanks around the text are not removed *)
clean_bool_NoStrip(x) ==
    IF x.kind = "bool" THEN x.v
    ELSE StrUpper(StrOf(x)) = <<"T", "R", "U", "E">>

clean_bool(x) ==
    IF x.kind = "bool" THEN x.v
    ELSE StrUpper(StrStrip(StrOf(x))) = <<"T", "R", "U", "E">>

(* inputs *)
BudgetGroups ==
    UNION {[1..n -> [sel : BOOLEAN, total : Totals]] : n \in 1..MaxGroupRows}

JudgeCells == {Unparsable, NaT} \cup 1..MaxDay

Blanks(n) == [i \in 1..n |-> " "]

(* the word true with each letter in either case *)
CasedTrue ==
    {[i \in 1..4 |-> IF up[i] THEN <<"T", "R", "U", "E">>[i] ELSE <<"t", "r", "u", "e">>[i]] :
        up \in [1..4 -> BOOLEAN]}

OtherTexts ==
    {<<>>, <<" ">>, <<"1">>, <<"y", "e", "s">>, <<"f", "a", "l", "s", "e">>,
     <<"F", "A", "L", "S", "E">>, <<"t", "r", "u", "e", "s">>, <<"t", "r", " ", "u", "e">>}

RawTexts ==
    {Blanks(l) \o w \o Blanks(t) :
        l \in 0..MaxPad, t \in 0..MaxPad, w \in CasedTrue \cup OtherTexts}

NoProgram ==
    /\ FreshSession
    /\ SingleSession
    /\ data = <<>>
    /\ project_metadata = EmptyMeta
    /\ data_load_failed = FALSE
    /\ next_id = 1
    /\ sheet_data = <<>>
    /\ sheet_meta = <<>>
    /\ gcs = {}

InitFunctions ==
    /\ NoProgram
    /\ result = <<>>
    /\ \/ \E g \in BudgetGroups : arg = <<"sub_total", g>>
       \/ \E d, l \in JudgeCells : arg = <<"judgment", [deliv |-> d, latest |-> l]>>
       \/ \E b \in BOOLEAN : arg = <<"clean_bool", [kind |-> "bool", v |-> b]>>
       \/ \E n \in {0, 1} : arg = <<"clean_bool", [kind |-> "num", v |-> n]>>
       \/ \E s \in RawTexts : arg = <<"clean_bool", [kind |-> "str", v |-> s]>>

ApplySubTotal ==
    /\ arg[1] = "sub_total"
    /\ result = <<>>
    /\ result' = <<sub_total(arg[2])>>
    /\ UNCHANGED <<program_vars, arg>>

ApplyJudgment ==
    /\ arg[1] = "judgment"
    /\ result = <<>>
    /\ result' = <<get_date_judgment_icon(arg[2])>>
    /\ UNCHANGED <<program_vars, arg>>

ApplyCleanBool ==
    /\ arg[1] = "clean_bool"
    /\ result = <<>>
    /\ result' = <<clean_bool(arg[2])>>
    /\ UNCHANGED <<program_vars, arg>>

NextFunctions == ApplySubTotal \/ ApplyJudgment \/ ApplyCleanBool

SpecFunctions == InitFunctions /\ [][NextFunctions]_vars

Called(f) == arg[1] = f /\ result # <<>>

(* sum of the totals of the rows of g with index in I *)
RECURSIVE TotalOver(_, _)
TotalOver(g, I) ==
    IF I = {} THEN 0
    ELSE LET i == CHOOSE i \in I : TRUE
         IN  g[i].total + TotalOver(g, I \ {i})

(* C27: the budget of a non-empty group is the sum of the totals of its
   selected rows when a row is selected, else the least total of the group *)
C27_GroupBudget ==
    Called("sub_total") =>
        LET g        == arg[2]
            selected == {i \in 1..Len(g) : g[i].sel}
        IN  IF selected # {}
            THEN result[1] = TotalOver(g, selected)
            ELSE /\ \E i \in 1..Len(g) : result[1] = g[i].total
                 /\ \A i \in 1..Len(g) : result[1] <= g[i].total

(* the two groups of the example: unselected 100 and 80 give 80, selected
   100 with unselected 80 gives 100 *)
C27_Witness ==
    /\ Called("sub_total")
    /\ \/ arg[2] = <<[sel |-> FALSE, total |-> 100], [sel |-> FALSE, total |-> 80]>>
          /\ result[1] = 80
       \/ arg[2] = <<[sel |-> TRUE, total |-> 100], [sel |-> FALSE, total |-> 80]>>
          /\ result[1] = 100

(* C28: a quote is judged late iff its expected delivery date and its latest
   allowable arrival date are both present and the first is strictly later;
   equal dates, a missing date and an unparsable date are not late *)
C28_AtRiskIffStrictlyLater ==
    Called("judgment") =>
        LET d == arg[2].deliv
            l == arg[2].latest
        IN  (result[1] = "late") <=> (d \in 1..MaxDay /\ l \in 1..MaxDay /\ d > l)

(* equal dates were judged, and judged not late *)
C28_Witness ==
    /\ Called("judgment")
    /\ arg[2].deliv = 2 /\ arg[2].latest = 2
    /\ result[1] = "ontime"

EqualsTrueIgnoringCase(s) ==
    /\ Len(s) = 4
    /\ s[1] \in {"t", "T"} /\ s[2] \in {"r", "R"}
    /\ s[3] \in {"u", "U"} /\ s[4] \in {"e", "E"}

(* C29: clean_bool gives a boolean; a native boolean keeps its value, a text
   equal to "true" in any letter case gives true, every other cell gives
   false *)
C29_CleanBool ==
    Called("clean_bool") =>
        LET x == arg[2]
        IN  /\ result[1] \in BOOLEAN
            /\ result[1] = (IF x.kind = "bool" THEN x.v
                            ELSE x.kind = "str" /\ EqualsTrueIgnoringCase(x.v))

(* the same, with the blanks before and after the text disregarded *)
C29_CleanBoolStripped ==
    Called("clean_bool") =>
        LET x == arg[2]
        IN  /\ result[1] \in BOOLEAN
            /\ result[1] = (IF x.kind = "bool" THEN x.v
                            ELSE x.kind = "str" /\
                                 \E l, t \in 0..MaxPad, w \in CasedTrue :
                                     x.v = Blanks(l) \o w \o Blanks(t))

----------------------------------------------------------------------------
(* Failed writes *)

WriteNotDone == wres' \in {"failed", "partial", "disabled"}

(* what the handler of the step did to the session, whatever became of its
   write: add quote appended the quote with the next ID and advanced the
   counter, rename re-keyed the project, delete project removed the project
   and its quotes, confirm removed the pending quotes *)
MutatedInMemory ==
    /\ op' = "add_quote" =>
          /\ Len(data') = Len(data) + 1
          /\ SubSeq(data', 1, Len(data)) = data
          /\ data'[Len(data')].ID = next_id
          /\ next_id' = next_id + 1
    /\ op' = "rename_project" =>
          \E P \in DOMAIN project_metadata : \E N \in Range(ProjectNames) :
              RenamedInMemory(P, N)
    /\ op' = "delete_project" =>
          \E P \in DOMAIN project_metadata :
              /\ DOMAIN project_metadata' = DOMAIN project_metadata \ {P}
              /\ data' = SelectSeq(data, LAMBDA r : r.proj # P)
    /\ op' = "confirm_delete" =>
          /\ pending_delete_ids.present
          /\ data' = SelectSeq(data, LAMBDA r : r.ID \notin Range(pending_delete_ids.ids))
          /\ show_delete_confirm'
          /\ pending_delete_ids' = pending_delete_ids
          /\ edited_dataframes' = edited_dataframes

(* C31 as stated: a handler whose Record Store write did not succeed has
   still changed the session and does not undo it, and the Record Store
   holds what it held before *)
C31_NoRollbackStoreKept ==
    [][WriteNotDone => (MutatedInMemory /\ StoreAllOld)]_vars

(* C31 as amended: the session is changed and stays changed; the Record
   Store holds what it held before when the write was refused or failed
   before the first overwrite, and the new quote rows with the previous
   project rows when it failed between the two overwrites *)
C31_NoRollback ==
    [][WriteNotDone =>
        /\ MutatedInMemory
        /\ wres' \in {"failed", "disabled"} => StoreAllOld
        /\ wres' = "partial" =>
              (sheet_data' = ExportData(data') /\ sheet_meta' = sheet_meta)]_vars

(* a confirm whose write failed: quote 2 is gone from the session and still
   in the store, the coordinator is still confirming with its pending set
   and the buffer *)
C31_Witness ==
    /\ op = "confirm_delete" /\ wres = "failed"
    /\ show_delete_confirm
    /\ pending_delete_ids.present /\ 2 \in Range(pending_delete_ids.ids)
    /\ edited_dataframes # <<>>
    /\ 2 \notin Ids(data)
    /\ \E k \in 1..Len(sheet_data) : sheet_data[k].ID = 2

----------------------------------------------------------------------------
(* Confirm and the Edit Buffer *)

ConfirmDone == op' = "confirm_delete" /\ wres' = "ok"

(* C32 as stated: a successful confirm removes every pending quote, also one
   flagged only in a snapshot, and every quote that survives and existed
   when the pending set was captured has the field values it had in the
   canonical table at that moment *)
C32_SurvivorsAsBeforeTrigger ==
    [][ConfirmDone =>
        /\ \A id \in Range(pending_delete_ids.ids) : id \notin Ids(data')
        /\ \A j \in 1..Len(data') :
              data'[j].ID \in Ids(data_at_trigger) =>
                  data'[j] = data_at_trigger[IndexOfID(data_at_trigger, data'[j].ID)]]_vars

(* C32 as amended: trigger leaves the canonical table as it is; a successful
   confirm removes every pending quote, also one flagged only in a snapshot,
   leaves every other quote with the field values of the canonical table
   right before the confirm, whatever its snapshot row says, and empties
   the Edit Buffer *)
C32_ConfirmNeverMerges ==
    /\ [][op' = "trigger" => data' = data]_vars
    /\ [][ConfirmDone =>
            /\ \A id \in Range(pending_delete_ids.ids) : id \notin Ids(data')
            /\ data' = SelectSeq(data, LAMBDA r : r.ID \notin Range(pending_delete_ids.ids))
            /\ edited_dataframes' = <<>>]_vars

(* quote 3, whose canonical deletion flag is false, was flagged in its
   snapshot and removed by a successful confirm together with quote 2 *)
C32_Witness ==
    /\ op = "confirm_delete" /\ wres = "ok"
    /\ Ids(data) = {1}
    /\ "B" \in DOMAIN project_metadata
    /\ \A k \in 1..Len(sheet_data) : sheet_data[k].ID = 1

----------------------------------------------------------------------------
(* A session whose confirmation dialog is open while the pending set is
   missing or empty.  No handler of this script leaves a session so (the
   set is written together with show_delete_confirm and removed only after
   it); st.session_state outlives a reload of the script, and
   pending_delete_ids is not among the keys initialize_session_state
   restores.  handle_batch_delete_quotes guards against it *)

InitExpiredConfirm ==
    /\ sheet_data = ExportData(StoredQuotes)
    /\ sheet_meta = ExportMeta(StoredMeta)
    /\ gcs = AttNames(StoredQuotes)
    /\ SingleSession
    /\ NoCall
    /\ data = StoredQuotes
    /\ project_metadata = StoredMeta
    /\ data_load_failed = FALSE
    /\ next_id = MaxOf(Ids(StoredQuotes)) + 1
    /\ edited_dataframes = <<>>
    /\ data_at_trigger = <<>>
    /\ show_delete_confirm = TRUE
    /\ pending_delete_ids \in {NoPending, [present |-> TRUE, ids |-> <<>>]}
    /\ delete_count \in {0, 1}
    /\ pc = "render"
    /\ clock = 0
    /\ op = "load"
    /\ report = "none"
    /\ wres = "none"
    /\ delete_attempts = {}
    /\ report_count = 0

NextExpiredConfirm ==
    \/ Render
    \/ \E e \in EditInputs : EditCell(e[1], e[2], e[3])
    \/ \E outcome \in WriteOutcomes : handle_master_save(outcome)
    \/ trigger_delete_confirmation
    \/ \E failing \in SUBSET AttNames(data), outcome \in WriteOutcomes :
          handle_batch_delete_quotes(failing, outcome)
    \/ cancel_delete

SpecExpiredConfirm == InitExpiredConfirm /\ [][NextExpiredConfirm]_vars

PendingMissingOrEmpty ==
    ~pending_delete_ids.present \/ pending_delete_ids.ids = <<>>

(* C33: a confirm that finds the pending set missing or empty puts the
   coordinator back to idle, removes no quote, attempts no attachment
   delete, leaves the bucket and the Record Store as they are and issues no
   write *)
C33_ExpiredConfirm ==
    [][(op' = "confirm_delete" /\ PendingMissingOrEmpty) =>
        /\ ~show_delete_confirm'
        /\ data' = data
        /\ delete_attempts' = {}
        /\ gcs' = gcs
        /\ wres' = "none"
        /\ sheet_data' = sheet_data
        /\ sheet_meta' = sheet_meta]_vars

(* the expired confirm ran: idle again, all three quotes and the file kept *)
C33_Witness ==
    /\ op = "confirm_delete" /\ report = "delete_expired"
    /\ ~show_delete_confirm
    /\ Ids(data) = {1, 2, 3}
    /\ BlobName(2, "old.pdf") \in gcs
    /\ sheet_data = ExportData(StoredQuotes)

----------------------------------------------------------------------------
(* The two overwrites of a save *)

(* C34: a save overwrites the quote rows, then the project rows.  A save
   that succeeded has replaced both; a save that failed between the two has
   replaced the quote rows and left the project rows; a save that failed
   earlier, was refused, or was not attempted has left both.  The project
   rows are never replaced without the quote rows *)
C34_TwoSequentialOverwrites ==
    [][/\ wres' = "ok" => StoreAllNew
       /\ wres' = "partial" =>
             (sheet_data' = ExportData(data') /\ sheet_meta' = sheet_meta)
       /\ wres' \in {"failed", "disabled", "none"} => StoreAllOld
       /\ sheet_meta' # sheet_meta => sheet_data' = ExportData(data')]_vars

(* a rename whose save reported failure: the store has the renamed quote
   rows next to the project rows it had when loaded *)
C34_Witness ==
    /\ op = "rename_project" /\ wres = "partial"
    /\ sheet_data = ExportData(data)
    /\ sheet_data # ExportData(StoredQuotes)
    /\ \E k \in 1..Len(sheet_data) : sheet_data[k].proj = "C"
    /\ sheet_meta = ExportMeta(StoredMeta)
    /\ "C" \in DOMAIN project_metadata

====
